---- MODULE Spec2Model ----
(***************************************************************************)
(* SecureHire front end: the Guards context (a fetched, refetchable list   *)
(* of guards), and the guard and company registration forms (zod schema    *)
(* validation through react-hook-form's handleSubmit, payload assembly,    *)
(* one external call, toast / navigation on its outcome).                  *)
(*                                                                         *)
(* JavaScript runs each handler to its next await without interleaving, so *)
(* one action is one such run: the part of an async function before its    *)
(* await, or the continuation after it.                                    *)
(***************************************************************************)
EXTENDS Integers, Sequences, FiniteSets, TLC

VARIABLES
    guards,       \* GuardsProvider: useState<Guard[]>([])
    isLoading,    \* GuardsProvider: useState(true)
    mounted,      \* GuardsProvider: the mount effect has run
    requests,     \* apiFetch('/api/guards') calls, in the order they were issued
    microtasks,   \* continuations of fetchGuards whose awaited promise has settled
    settleOrder,  \* the requests that have settled, in the order they did
    invocations,  \* number of fetchGuards invocations so far
    errorLog,     \* console.error calls of fetchGuards: the request each was for
    escaped,      \* a rejection left fetchGuards (it reached the consumer)
    guardIsLoading,    \* RegisterGuardPage: useState(false)
    companyIsLoading,  \* RegisterCompanyPage: useState(false)
    guardErrors,       \* guard form: formState.errors, field -> message
    companyErrors,     \* company form: formState.errors, field -> message
    submits,      \* the submit events so far, of either form
    calls,        \* registerGuard / apiFetch calls made by onSubmit, in order
    effects,      \* toast(...) and router.push(...) calls, in order
    rethrown      \* submit events whose onSubmit let an error through

cacheVars == <<guards, isLoading, mounted, requests, microtasks, settleOrder,
               invocations, errorLog, escaped>>

formVars == <<guardIsLoading, companyIsLoading, guardErrors, companyErrors,
              submits, calls, effects, rethrown>>

vars == <<cacheVars, formVars>>

----------------------------------------------------------------------------
(* Bounds *)

\* fetchGuards invocations in one behaviour (the mount effect's and refetches)
MaxFetches == 3

\* submit events in one behaviour, over both forms
MaxSubmits == 2

----------------------------------------------------------------------------
(* Guards context: src/src/context/GuardsContext.tsx *)

\* The payloads the list endpoint can answer with: null / undefined, or an
\* array of guards (here named by their id).
Payloads ==
    { [absent |-> TRUE, list |-> <<>>] } \cup
    { [absent |-> FALSE, list |-> l] : l \in { <<>>, <<"g1">>, <<"g2", "g1">> } }

\* How the promise apiFetch returned can settle.
Outcomes ==
    { [kind |-> "resolved", data |-> p] : p \in Payloads } \cup
    { [kind |-> "rejected"] }

NoOutcome == [kind |-> "none"]

\* data || []   (an array, even an empty one, is truthy)
OrEmptyList(data) == IF data.absent THEN <<>> ELSE data.list

\* fetchGuards up to its await: setIsLoading(true), then the apiFetch call.
FetchGuardsDedup(reqs) ==
    IF \E i \in DOMAIN reqs : reqs[i].phase # "done"
    THEN reqs
    ELSE Append(reqs, [phase |-> "pending", outcome |-> NoOutcome])

FetchGuardsCall(reqs) ==
    Append(reqs, [phase |-> "pending", outcome |-> NoOutcome])

\* fetchGuards after its await: try / catch / finally.
FetchGuardsKeepStale(cur, outcome) ==
    IF outcome.kind = "resolved"
    THEN [guards |-> OrEmptyList(outcome.data), isLoading |-> FALSE,
          logged |-> FALSE, thrown |-> FALSE]
    ELSE [guards |-> cur, isLoading |-> FALSE, logged |-> TRUE, thrown |-> FALSE]

FetchGuardsMerge(cur, outcome) ==
    IF outcome.kind = "resolved"
    THEN [guards |-> cur \o OrEmptyList(outcome.data), isLoading |-> FALSE,
          logged |-> FALSE, thrown |-> FALSE]
    ELSE [guards |-> <<>>, isLoading |-> FALSE, logged |-> TRUE, thrown |-> FALSE]

FetchGuardsResume(cur, outcome) ==
    IF outcome.kind = "resolved"
    THEN [guards |-> OrEmptyList(outcome.data), isLoading |-> FALSE,
          logged |-> FALSE, thrown |-> FALSE]
    ELSE [guards |-> <<>>, isLoading |-> FALSE, logged |-> TRUE, thrown |-> FALSE]

\* One invocation of fetchGuards, run to its await.
FetchGuards ==
    /\ invocations < MaxFetches
    /\ invocations' = invocations + 1
    /\ isLoading' = TRUE
    /\ requests' = FetchGuardsCall(requests)
    /\ UNCHANGED <<guards, microtasks, settleOrder, errorLog, escaped, formVars>>

\* useEffect(() => { fetchGuards(); }, [fetchGuards]): once, after the first render.
Mount ==
    /\ ~mounted
    /\ mounted' = TRUE
    /\ FetchGuards

\* A consumer calls refetchGuards (the same function), at any time after mount.
RefetchGuards ==
    /\ mounted
    /\ UNCHANGED mounted
    /\ FetchGuards

\* The network settles one outstanding request; the awaiting continuation is
\* queued as a microtask.
Settle(i, outcome) ==
    /\ requests[i].phase = "pending"
    /\ requests' = [requests EXCEPT ![i] = [phase |-> "settled", outcome |-> outcome]]
    /\ microtasks' = Append(microtasks, i)
    /\ settleOrder' = Append(settleOrder, i)
    /\ UNCHANGED <<guards, isLoading, mounted, invocations, errorLog, escaped, formVars>>

\* The oldest queued continuation runs to the end of fetchGuards.
Resume ==
    /\ microtasks # <<>>
    /\ LET i == Head(microtasks)
           r == FetchGuardsResume(guards, requests[i].outcome)
       IN /\ guards' = r.guards
          /\ isLoading' = r.isLoading
          /\ errorLog' = IF r.logged THEN Append(errorLog, i) ELSE errorLog
          /\ escaped' = (escaped \/ r.thrown)
          /\ requests' = [requests EXCEPT ![i].phase = "done"]
    /\ microtasks' = Tail(microtasks)
    /\ UNCHANGED <<mounted, settleOrder, invocations, formVars>>

----------------------------------------------------------------------------
(* JavaScript values of the form fields, and the conversions the code uses *)

\* A JavaScript string is [t |-> "string", s |-> ...]: s is a TLA+ string for
\* free text, and the sequence of its characters for what is typed into a
\* numeric input, so that Number() reads it character by character.
Undefined == [t |-> "undefined"]
NaN == [t |-> "nan"]
Str(s) == [t |-> "string", s |-> s]
Num(n) == [t |-> "number", n |-> n]
Bool(b) == [t |-> "boolean", b |-> b]
Files(fs) == [t |-> "files", files |-> fs]

\* if (v) ...   and   v || fallback
Truthy(v) ==
    CASE v.t = "string" -> Len(v.s) > 0
      [] v.t = "number" -> v.n # 0
      [] v.t = "boolean" -> v.b
      [] v.t = "files" -> TRUE
      [] OTHER -> FALSE

DigitChars == <<"0", "1", "2", "3", "4", "5", "6", "7", "8", "9">>

IsDigit(c) == \E d \in DOMAIN DigitChars : DigitChars[d] = c

DigitValue(c) == (CHOOSE d \in DOMAIN DigitChars : DigitChars[d] = c) - 1

RECURSIVE DigitsValue(_)
DigitsValue(cs) ==
    IF cs = <<>> THEN 0
    ELSE 10 * DigitsValue(SubSeq(cs, 1, Len(cs) - 1)) + DigitValue(cs[Len(cs)])

AllDigits(cs) == cs # <<>> /\ \A i \in DOMAIN cs : IsDigit(cs[i])

\* Number(v) as z.coerce.number() applies it: the empty string is 0, a signed
\* run of decimal digits is its value, any other text here is NaN.
ToNumber(v) ==
    CASE v.t = "number" -> v
      [] v.t = "boolean" -> Num(IF v.b THEN 1 ELSE 0)
      [] v.t = "string" ->
            IF Len(v.s) = 0 THEN Num(0)
            ELSE IF AllDigits(v.s) THEN Num(DigitsValue(v.s))
            ELSE IF Head(v.s) = "-" /\ AllDigits(Tail(v.s))
                 THEN Num(0 - DigitsValue(Tail(v.s)))
            ELSE NaN
      [] OTHER -> NaN

RECURSIVE NatToChars(_)
NatToChars(n) ==
    IF n < 10 THEN <<DigitChars[n + 1]>>
    ELSE Append(NatToChars(n \div 10), DigitChars[(n % 10) + 1])

\* n.toString() of an integer
NumberToString(n) == IF n < 0 THEN <<"-">> \o NatToChars(0 - n) ELSE NatToChars(n)

----------------------------------------------------------------------------
(* zod: a parse yields a status, the parsed value and the issues raised.   *)
(* "aborted" is zod's INVALID (a wrong type), "dirty" a failed check.      *)

Issue(path, message) == [path |-> path, message |-> message]

Valid(v) == [status |-> "valid", value |-> v, issues |-> <<>>]

Aborted(path, message) ==
    [status |-> "aborted", value |-> Undefined, issues |-> <<Issue(path, message)>>]

\* A check (.min, .email, .regex, .max) or a .refine on an inner result: it does
\* not run when the inner parse aborted, and a failure marks the result dirty.
Refine(res, ok, path, message) ==
    IF res.status = "aborted" \/ ok THEN res
    ELSE [status |-> "dirty", value |-> res.value,
          issues |-> Append(res.issues, Issue(path, message))]

\* z.string({ required_error })
ZString(v, path, requiredError) ==
    IF v.t = "string" THEN Valid(v)
    ELSE Aborted(path, IF v.t = "undefined" THEN requiredError
                       ELSE "Expected string")

\* z.coerce.number()
ZCoerceNumber(v, path) ==
    LET n == ToNumber(v)
    IN IF n.t = "number" THEN Valid(n) ELSE Aborted(path, "Expected number, received nan")

\* z.boolean()
ZBoolean(v, path) ==
    IF v.t = "boolean" THEN Valid(v)
    ELSE Aborted(path, IF v.t = "undefined" THEN "Required" ELSE "Expected boolean")

\* z.object: every field is parsed; the object is aborted when a field is,
\* else dirty when a field is; the issues are the fields' issues in shape order.
RECURSIVE ConcatIssues(_)
ConcatIssues(rs) ==
    IF rs = <<>> THEN <<>> ELSE Head(rs).res.issues \o ConcatIssues(Tail(rs))

ZObject(fields) ==
    [status |-> IF \E i \in DOMAIN fields : fields[i].res.status = "aborted"
                THEN "aborted"
                ELSE IF \E i \in DOMAIN fields : fields[i].res.status = "dirty"
                     THEN "dirty" ELSE "valid",
     value |-> [k \in {fields[i].key : i \in DOMAIN fields} |->
                  (CHOOSE f \in {fields[i] : i \in DOMAIN fields} : f.key = k).res.value],
     issues |-> ConcatIssues(fields)]

Field(key, res) == [key |-> key, res |-> res]

\* @hookform/resolvers zodResolver: the first issue of each path becomes the
\* field's error.
FieldErrors(issues) ==
    [p \in {issues[i].path : i \in DOMAIN issues} |->
        issues[CHOOSE i \in DOMAIN issues :
                  /\ issues[i].path = p
                  /\ \A j \in DOMAIN issues : issues[j].path = p => i <= j].message]

NoErrors == FieldErrors(<<>>)

----------------------------------------------------------------------------
(* Guard registration schema: src/unnamed/part_000 *)

MAX_FILE_SIZE == 5 * 1024 * 1024

ACCEPTED_IMAGE_TYPES == {"image/jpeg", "image/jpg", "image/png", "image/webp"}

roles == {"Security Guard", "Bouncer", "Event Security", "Bodyguard", "Caretaker"}

\* The e-mail addresses, phone numbers and URLs among the modelled inputs that
\* zod's email pattern, the phone pattern /^\+?[0-9\s-]+$/ and new URL() accept.
WellFormedEmails == {"jo@example.com", "hr@acme.com"}
WellFormedPhones == {"+91 98765 43210", "98765"}
WellFormedUrls == {"https://acme.com"}

\* z.preprocess((val) => val === '' ? undefined : val, z.coerce.number().optional())
emptyStringToUndefined(v, path) ==
    LET val == IF v.t = "string" /\ Len(v.s) = 0 THEN Undefined ELSE v
    IN IF val.t = "undefined" THEN Valid(Undefined) ELSE ZCoerceNumber(val, path)

\* profilePicture: z.any() and three refinements, each run in turn.
ProfilePictureSchemaBelowMax(files) ==
    LET present == files.t = "files" /\ Len(files.files) = 1
        first == files.t = "files" /\ Len(files.files) >= 1
        r1 == Refine(Valid(files), present,
                     "profilePicture", "Profile picture is required.")
        r2 == Refine(r1, first /\ files.files[1].size < MAX_FILE_SIZE,
                     "profilePicture", "Max file size is 5MB.")
    IN Refine(r2, first /\ files.files[1].type \in ACCEPTED_IMAGE_TYPES,
              "profilePicture", "Only .jpg, .jpeg, .png and .webp formats are supported.")

ProfilePictureSchema(files) ==
    LET present == files.t = "files" /\ Len(files.files) = 1
        first == files.t = "files" /\ Len(files.files) >= 1
        r1 == Refine(Valid(files), present,
                     "profilePicture", "Profile picture is required.")
        r2 == Refine(r1, first /\ files.files[1].size <= MAX_FILE_SIZE,
                     "profilePicture", "Max file size is 5MB.")
    IN Refine(r2, first /\ files.files[1].type \in ACCEPTED_IMAGE_TYPES,
              "profilePicture", "Only .jpg, .jpeg, .png and .webp formats are supported.")

AgreeTermsSchema(v) ==
    LET b == ZBoolean(v, "agreeTerms")
    IN Refine(b, b.value.t = "boolean" /\ b.value.b,
              "agreeTerms", "You must agree to the terms and conditions.")

\* z.string().min(n, message): the field's text is at least n characters long
MinLength(res, n, path, message) ==
    Refine(res, res.value.t = "string" /\ Len(res.value.s) >= n, path, message)

MaxLength(res, n, path, message) ==
    Refine(res, res.value.t = "string" /\ Len(res.value.s) <= n, path, message)

OptionalString(v, path) ==
    IF v.t = "undefined" THEN Valid(Undefined) ELSE ZString(v, path, "Required")

\* The z.object({...}) of the guard form, before its cross-field .refine.
GuardObjectSchema(raw) ==
    ZObject(<<
        Field("fullName", MinLength(ZString(raw.fullName, "fullName", "Required"), 2,
                 "fullName", "Full name must be at least 2 characters.")),
        Field("email", LET s == ZString(raw.email, "email", "Required")
                       IN Refine(s, s.value.t = "string" /\ s.value.s \in WellFormedEmails,
                                 "email", "Invalid email address.")),
        Field("password", MinLength(ZString(raw.password, "password", "Required"), 8,
                 "password", "Password must be at least 8 characters.")),
        Field("phone", LET s == MinLength(ZString(raw.phone, "phone", "Required"), 10,
                                    "phone", "Phone number must be at least 10 digits.")
                       IN Refine(s, s.value.t = "string" /\ s.value.s \in WellFormedPhones,
                                 "phone", "Invalid phone number format.")),
        Field("role", ZString(raw.role, "role", "Please select a primary role.")),
        Field("experience", LET n == ZCoerceNumber(raw.experience, "experience")
                            IN Refine(n, n.value.t = "number" /\ n.value.n >= 0,
                                      "experience", "Experience must be a positive number.")),
        Field("hourlyRate", emptyStringToUndefined(raw.hourlyRate, "hourlyRate")),
        Field("dailyRate", emptyStringToUndefined(raw.dailyRate, "dailyRate")),
        Field("monthlyRate", emptyStringToUndefined(raw.monthlyRate, "monthlyRate")),
        Field("bio", MaxLength(OptionalString(raw.bio, "bio"), 500,
                 "bio", "Bio must not exceed 500 characters.")),
        Field("skills", OptionalString(raw.skills, "skills")),
        Field("location", MinLength(ZString(raw.location, "location", "Required"), 2,
                 "location", "Location is required.")),
        Field("profilePicture", ProfilePictureSchema(raw.profilePicture)),
        Field("agreeTerms", AgreeTermsSchema(raw.agreeTerms)) >>)

AtLeastOneRateMessage == "Please provide at least one rate (hourly, daily, or monthly)."

\* data.hourlyRate != null || data.dailyRate != null || data.monthlyRate != null
HasRate(data) ==
    \/ data.hourlyRate.t # "undefined"
    \/ data.dailyRate.t # "undefined"
    \/ data.monthlyRate.t # "undefined"

\* formSchema of the guard form: the object, then .refine(..., { path: ["hourlyRate"] }).
\* zod runs the refinement of an object only when no field aborted.
GuardFormSchema(raw) ==
    LET obj == GuardObjectSchema(raw)
    IN Refine(obj, HasRate(obj.value), "hourlyRate", AtLeastOneRateMessage)

----------------------------------------------------------------------------
(* Company registration schema: src/src/app/register-company/page.tsx *)

\* z.string().url().optional().or(z.literal('')): the first option that is
\* valid wins; otherwise the first option's (dirty) result stands.
WebsiteSchema(v) ==
    LET s == OptionalString(v, "website")
        url == Refine(s, s.value.t = "undefined" \/
                         (s.value.t = "string" /\ s.value.s \in WellFormedUrls),
                      "website", "Invalid URL.")
    IN IF url.status = "valid" THEN url
       ELSE IF v.t = "string" /\ Len(v.s) = 0 THEN Valid(v)
       ELSE IF url.status = "dirty" THEN url
       ELSE Aborted("website", "Invalid input")

CompanyFormSchema(raw) ==
    ZObject(<<
        Field("companyName", MinLength(ZString(raw.companyName, "companyName", "Required"), 2,
                 "companyName", "Company name must be at least 2 characters.")),
        Field("email", LET s == ZString(raw.email, "email", "Required")
                       IN Refine(s, s.value.t = "string" /\ s.value.s \in WellFormedEmails,
                                 "email", "Invalid email address.")),
        Field("password", MinLength(ZString(raw.password, "password", "Required"), 8,
                 "password", "Password must be at least 8 characters.")),
        Field("website", WebsiteSchema(raw.website)),
        Field("location", MinLength(ZString(raw.location, "location", "Required"), 2,
                 "location", "Location is required.")),
        Field("description", MaxLength(OptionalString(raw.description, "description"), 1000,
                 "description", "Description must not exceed 1000 characters.")),
        Field("agreeTerms", AgreeTermsSchema(raw.agreeTerms)) >>)

----------------------------------------------------------------------------
(* Payloads *)

Part(name, value) == [name |-> name, value |-> value]

AppendIf(cond, formData, name, value) ==
    IF cond THEN Append(formData, Part(name, value)) ELSE formData

\* Guard onSubmit: the FormData it builds, part by part (part_000 lines 97-117).
GuardFormDataAll(values) ==
    LET fd1 == << Part("fullName", values.fullName.s),
                  Part("email", values.email.s),
                  Part("password", values.password.s),
                  Part("phone", values.phone.s),
                  Part("role", values.role.s),
                  Part("experience", NumberToString(values.experience.n)),
                  Part("location", values.location.s) >>
        fd2 == Append(fd1, Part("hourlyRate",
                  IF values.hourlyRate.t = "number"
                  THEN NumberToString(values.hourlyRate.n) ELSE <<>>))
        fd3 == AppendIf(Truthy(values.dailyRate), fd2, "dailyRate",
                        NumberToString(values.dailyRate.n))
        fd4 == AppendIf(Truthy(values.monthlyRate), fd3, "monthlyRate",
                        NumberToString(values.monthlyRate.n))
        fd5 == Append(fd4, Part("bio",
                  IF values.bio.t = "string" THEN values.bio.s ELSE ""))
        fd6 == AppendIf(Truthy(values.skills), fd5, "skills", values.skills.s)
    IN AppendIf(values.profilePicture.t = "files" /\ Len(values.profilePicture.files) > 0,
                fd6, "profilePicture", values.profilePicture.files[1])

GuardFormData(values) ==
    LET fd1 == << Part("fullName", values.fullName.s),
                  Part("email", values.email.s),
                  Part("password", values.password.s),
                  Part("phone", values.phone.s),
                  Part("role", values.role.s),
                  Part("experience", NumberToString(values.experience.n)),
                  Part("location", values.location.s) >>
        fd2 == AppendIf(Truthy(values.hourlyRate), fd1, "hourlyRate",
                        NumberToString(values.hourlyRate.n))
        fd3 == AppendIf(Truthy(values.dailyRate), fd2, "dailyRate",
                        NumberToString(values.dailyRate.n))
        fd4 == AppendIf(Truthy(values.monthlyRate), fd3, "monthlyRate",
                        NumberToString(values.monthlyRate.n))
        fd5 == AppendIf(Truthy(values.bio), fd4, "bio", values.bio.s)
        fd6 == AppendIf(Truthy(values.skills), fd5, "skills", values.skills.s)
    IN AppendIf(values.profilePicture.t = "files" /\ Len(values.profilePicture.files) > 0,
                fd6, "profilePicture", values.profilePicture.files[1])

\* const { agreeTerms, ...submissionData } = values
SubmissionDataAll(values) == values

SubmissionData(values) == [k \in DOMAIN values \ {"agreeTerms"} |-> values[k]]

\* The order in which zod's output object holds its keys (the shape's order).
CompanyKeyOrder ==
    <<"companyName", "email", "password", "website", "location", "description",
      "agreeTerms">>

\* JSON.stringify(obj): the members of the object whose value is not undefined,
\* as key / value pairs in key order.
RECURSIVE JsonMembers(_, _)
JsonMembers(obj, keys) ==
    IF keys = <<>> THEN <<>>
    ELSE LET k == Head(keys)
             rest == JsonMembers(obj, Tail(keys))
         IN IF k \in DOMAIN obj /\ obj[k].t # "undefined"
            THEN <<[key |-> k, value |-> obj[k]]>> \o rest
            ELSE rest

JsonStringify(obj) == JsonMembers(obj, CompanyKeyOrder)

----------------------------------------------------------------------------
(* Submission: handleSubmit(onSubmit) of both pages *)

Toast(title, description, variant) ==
    [kind |-> "toast", title |-> title, description |-> description,
     variant |-> variant]

Push(path) == [kind |-> "push", path |-> path]

\* What the external call can reject with: an error without a message, with
\* an empty one, with a message.
Errors ==
    { [message |-> Undefined], [message |-> Str("")],
      [message |-> Str("Email already registered")] }

CallOutcomes ==
    { [kind |-> "resolved"] } \cup { [kind |-> "rejected", error |-> e] : e \in Errors }

\* error.message || fallback
ErrorDescription(error, fallback) ==
    IF Truthy(error.message) THEN error.message.s ELSE fallback

\* react-hook-form's handleSubmit: onSubmit runs only when the resolver
\* reported no error.
RunsOnSubmitAlways(result) == TRUE

RunsOnSubmit(result) == result.issues = <<>>

Call(id, api, body) ==
    [submit |-> id, api |-> api, body |-> body, phase |-> "pending",
     outcome |-> NoOutcome]

\* Guard onSubmit up to its await.
GuardOnSubmitStartTwice(id, values) ==
    [isLoading |-> TRUE,
     calls |-> << Call(id, "registerGuard", GuardFormData(values)),
                  Call(id, "registerGuard", GuardFormData(values)) >>]

GuardOnSubmitStart(id, values) ==
    [isLoading |-> TRUE,
     calls |-> << Call(id, "registerGuard", GuardFormData(values)) >>]

\* Company onSubmit up to its await.
CompanyOnSubmitStart(id, values) ==
    [isLoading |-> TRUE,
     calls |-> << Call(id, "apiFetch", JsonStringify(SubmissionData(values))) >>]

\* Guard onSubmit after its await: try / catch / finally.
GuardOnSubmitRethrows(outcome) ==
    IF outcome.kind = "resolved"
    THEN [effects |-> <<>>, isLoading |-> FALSE, threw |-> FALSE]
    ELSE [effects |-> <<>>, isLoading |-> FALSE, threw |-> TRUE]

GuardOnSubmitResume(outcome) ==
    IF outcome.kind = "resolved"
    THEN [effects |-> <<>>, isLoading |-> FALSE, threw |-> FALSE]
    ELSE [effects |-> << Toast("Registration Failed",
                           ErrorDescription(outcome.error,
                               "Could not create profile. Please try again."),
                           "destructive") >>,
          isLoading |-> FALSE, threw |-> FALSE]

\* Company onSubmit after its await: try / catch / finally.
CompanyOnSubmitPushFirst(outcome) ==
    IF outcome.kind = "resolved"
    THEN [effects |-> << Push("/login"),
                         Toast("Company Registration Submitted!",
                           "Your company profile has been created. Please log in.",
                           "default") >>,
          isLoading |-> FALSE, threw |-> FALSE]
    ELSE [effects |-> << Toast("Registration Failed",
                           ErrorDescription(outcome.error,
                               "Could not create company profile. Please try again."),
                           "destructive") >>,
          isLoading |-> FALSE, threw |-> FALSE]

CompanyOnSubmitResume(outcome) ==
    IF outcome.kind = "resolved"
    THEN [effects |-> << Toast("Company Registration Submitted!",
                           "Your company profile has been created. Please log in.",
                           "default"),
                         Push("/login") >>,
          isLoading |-> FALSE, threw |-> FALSE]
    ELSE [effects |-> << Toast("Registration Failed",
                           ErrorDescription(outcome.error,
                               "Could not create company profile. Please try again."),
                           "destructive") >>,
          isLoading |-> FALSE, threw |-> FALSE]

Submitted(form, raw, result) ==
    IF RunsOnSubmit(result)
    THEN [form |-> form, raw |-> raw, ran |-> TRUE, values |-> result.value]
    ELSE [form |-> form, raw |-> raw, ran |-> FALSE]

\* A submit event of the guard form with the field values raw.
SubmitGuard(raw) ==
    LET result == GuardFormSchema(raw)
        id == Len(submits) + 1
    IN /\ submits' = Append(submits, Submitted("guard", raw, result))
       /\ guardErrors' = FieldErrors(result.issues)
       /\ IF RunsOnSubmit(result)
          THEN LET s == GuardOnSubmitStart(id, result.value)
               IN /\ guardIsLoading' = s.isLoading
                  /\ calls' = calls \o s.calls
          ELSE UNCHANGED <<guardIsLoading, calls>>
       /\ UNCHANGED <<companyIsLoading, companyErrors, effects, rethrown, cacheVars>>

\* A submit event of the company form with the field values raw.
SubmitCompany(raw) ==
    LET result == CompanyFormSchema(raw)
        id == Len(submits) + 1
    IN /\ submits' = Append(submits, Submitted("company", raw, result))
       /\ companyErrors' = FieldErrors(result.issues)
       /\ IF RunsOnSubmit(result)
          THEN LET s == CompanyOnSubmitStart(id, result.value)
               IN /\ companyIsLoading' = s.isLoading
                  /\ calls' = calls \o s.calls
          ELSE UNCHANGED <<companyIsLoading, calls>>
       /\ UNCHANGED <<guardIsLoading, guardErrors, effects, rethrown, cacheVars>>

Raised(id, es) == [i \in DOMAIN es |-> [submit |-> id, effect |-> es[i]]]

\* registerGuard settles and the guard onSubmit that awaits it runs to its end.
SettleRegisterGuard(i, outcome) ==
    /\ calls[i].phase = "pending"
    /\ calls[i].api = "registerGuard"
    /\ LET r == GuardOnSubmitResume(outcome)
       IN /\ effects' = effects \o Raised(calls[i].submit, r.effects)
          /\ guardIsLoading' = r.isLoading
          /\ rethrown' = IF r.threw THEN rethrown \cup {calls[i].submit} ELSE rethrown
    /\ calls' = [calls EXCEPT ![i].phase = "done", ![i].outcome = outcome]
    /\ UNCHANGED <<companyIsLoading, guardErrors, companyErrors, submits, cacheVars>>

\* apiFetch settles and the company onSubmit that awaits it runs to its end.
SettleApiFetch(i, outcome) ==
    /\ calls[i].phase = "pending"
    /\ calls[i].api = "apiFetch"
    /\ LET r == CompanyOnSubmitResume(outcome)
       IN /\ effects' = effects \o Raised(calls[i].submit, r.effects)
          /\ companyIsLoading' = r.isLoading
          /\ rethrown' = IF r.threw THEN rethrown \cup {calls[i].submit} ELSE rethrown
    /\ calls' = [calls EXCEPT ![i].phase = "done", ![i].outcome = outcome]
    /\ UNCHANGED <<guardIsLoading, guardErrors, companyErrors, submits, cacheVars>>

----------------------------------------------------------------------------
(* Inputs *)

PngFile(size) == [size |-> size, type |-> "image/png"]
GifFile(size) == [size |-> size, type |-> "image/gif"]

\* A guard form filled in validly, but for its rates.
GuardFilled ==
    [fullName |-> Str("Jo"), email |-> Str("jo@example.com"),
     password |-> Str("password1"), phone |-> Str("+91 98765 43210"),
     role |-> Str("Bouncer"), experience |-> Num(0),
     hourlyRate |-> Undefined, dailyRate |-> Undefined, monthlyRate |-> Undefined,
     bio |-> Str(""), skills |-> Str(""), location |-> Str("Pune"),
     profilePicture |-> Files(<<PngFile(4096)>>), agreeTerms |-> Bool(TRUE)]

\* What a rate input can hold: never touched, emptied, or a typed number.
RateInputs(typed) == {Undefined, Str(<<>>)} \cup {Str(cs) : cs \in typed}

PictureInputs ==
    { Undefined, Files(<<>>),
      Files(<<PngFile(MAX_FILE_SIZE)>>), Files(<<PngFile(MAX_FILE_SIZE + 1)>>),
      Files(<<GifFile(4096)>>), Files(<<GifFile(MAX_FILE_SIZE + 1)>>),
      Files(<<PngFile(4096), PngFile(4096)>>) }

\* Every combination of the rate inputs with a short or missing name, role,
\* bio and skills; and every picture input with a few of the other fields.
GuardFormInputs ==
    { [GuardFilled EXCEPT !.fullName = n, !.role = r,
                          !.hourlyRate = h, !.dailyRate = d, !.monthlyRate = m,
                          !.bio = b, !.skills = s] :
        n \in {Str("J"), Str("Jo")},
        r \in {Undefined, Str("Bouncer"), Str("Janitor")},
        h \in RateInputs({<<"0">>, <<"2", "5">>}),
        d \in RateInputs({<<"4", "0">>}),
        m \in RateInputs({<<"-", "5">>}),
        b \in {Str(""), Str("Ex-army.")},
        s \in {Str(""), Str("cctv, first aid")} }
    \cup
    { [GuardFilled EXCEPT !.role = r, !.experience = e, !.hourlyRate = h,
                          !.profilePicture = p, !.agreeTerms = a] :
        r \in {Undefined, Str("Bouncer")},
        e \in {Num(0), Str(<<"5">>)},
        h \in RateInputs({<<"2", "5">>}),
        p \in PictureInputs,
        a \in {Bool(TRUE), Bool(FALSE)} }

CompanyFilled ==
    [companyName |-> Str("Acme"), email |-> Str("hr@acme.com"),
     password |-> Str("password1"), website |-> Str(""), location |-> Str("Pune"),
     description |-> Str(""), agreeTerms |-> Bool(TRUE)]

CompanyFormInputs ==
    { [CompanyFilled EXCEPT !.companyName = n, !.email = e, !.website = w,
                            !.description = d, !.agreeTerms = a] :
        n \in {Str("A"), Str("Acme")},
        e \in {Str("hr"), Str("hr@acme.com")},
        w \in {Str(""), Str("https://acme.com"), Str("not-a-url")},
        d \in {Str(""), Str("We hire guards.")},
        a \in {Bool(TRUE), Bool(FALSE)} }

\* The few inputs the submissions are interleaved over.
GuardSubmitInputs ==
    { GuardFilled,
      [GuardFilled EXCEPT !.hourlyRate = Str(<<"2", "5">>)],
      [GuardFilled EXCEPT !.dailyRate = Str(<<"4", "0">>), !.bio = Str("Ex-army.")] }

CompanySubmitInputs ==
    { CompanyFilled, [CompanyFilled EXCEPT !.agreeTerms = Bool(FALSE)] }

----------------------------------------------------------------------------
(* Specifications *)

FormInit ==
    /\ guardIsLoading = FALSE
    /\ companyIsLoading = FALSE
    /\ guardErrors = NoErrors
    /\ companyErrors = NoErrors
    /\ submits = <<>>
    /\ calls = <<>>
    /\ effects = <<>>
    /\ rethrown = {}

CacheInit ==
    /\ guards = <<>>
    /\ isLoading = TRUE
    /\ mounted = FALSE
    /\ requests = <<>>
    /\ microtasks = <<>>
    /\ settleOrder = <<>>
    /\ invocations = 0
    /\ errorLog = <<>>
    /\ escaped = FALSE

Init == CacheInit /\ FormInit

\* The two forms, their submissions interleaved.
Next ==
    \/ \E raw \in GuardSubmitInputs : Len(submits) < MaxSubmits /\ SubmitGuard(raw)
    \/ \E raw \in CompanySubmitInputs : Len(submits) < MaxSubmits /\ SubmitCompany(raw)
    \/ \E i \in DOMAIN calls : \E o \in CallOutcomes : SettleRegisterGuard(i, o)
    \/ \E i \in DOMAIN calls : \E o \in CallOutcomes : SettleApiFetch(i, o)

Spec == Init /\ [][Next]_vars

\* One submission of either form, over every input of the forms.
NextSchema ==
    \/ \E raw \in GuardFormInputs : submits = <<>> /\ SubmitGuard(raw)
    \/ \E raw \in CompanyFormInputs : submits = <<>> /\ SubmitCompany(raw)
    \/ \E i \in DOMAIN calls : \E o \in CallOutcomes : SettleRegisterGuard(i, o)
    \/ \E i \in DOMAIN calls : \E o \in CallOutcomes : SettleApiFetch(i, o)

SpecSchema == Init /\ [][NextSchema]_vars

\* The Guards context.
NextCache ==
    \/ Mount
    \/ RefetchGuards
    \/ \E i \in DOMAIN requests : \E o \in Outcomes : Settle(i, o)
    \/ Resume

SpecCache == Init /\ [][NextCache]_vars

----------------------------------------------------------------------------
(* Properties of the submissions *)

LoadingOf(form) == IF form = "guard" THEN guardIsLoading ELSE companyIsLoading

LoadingAfter(form) == IF form = "guard" THEN guardIsLoading' ELSE companyIsLoading'

CallsOf(id) == {i \in DOMAIN calls : calls[i].submit = id}

EffectsOf(id) == SelectSeq(effects, LAMBDA e : e.submit = id)

FormOf(call) == IF call.api = "registerGuard" THEN "guard" ELSE "company"

FormOfCall(i) == FormOf(calls[i])

Fallback(form) ==
    IF form = "guard" THEN "Could not create profile. Please try again."
    ELSE "Could not create company profile. Please try again."

\* C1: every submission that runs onSubmit makes exactly one external call,
\* its page's loading flag is true once the call has been made, and the flag
\* is false once the call has completed, resolved or rejected.
C1_LoadingBracketsTheOneCall ==
    [][ /\ \A id \in DOMAIN submits' :
             submits'[id].ran => Cardinality(CallsOf(id)') = 1
        /\ \A i \in DOMAIN calls' :
             i \notin DOMAIN calls => /\ calls'[i].phase = "pending"
                                      /\ LoadingAfter(FormOf(calls'[i]))
        /\ \A i \in DOMAIN calls :
             calls[i].phase = "pending" /\ calls'[i].phase = "done"
                => ~LoadingAfter(FormOfCall(i)) ]_vars

\* A guard call has been rejected and its page is no longer loading, while a
\* company call is still in flight with its page loading.
C1_Witness ==
    \E i, j \in DOMAIN calls :
        /\ calls[i].api = "registerGuard" /\ calls[i].phase = "done"
        /\ calls[i].outcome.kind = "rejected" /\ ~guardIsLoading
        /\ calls[j].api = "apiFetch" /\ calls[j].phase = "pending"
        /\ companyIsLoading

\* C2: a rejected external call leaves exactly one notification of its
\* submission, the failure toast whose description is the error's message when
\* it has a (non-empty) one and the form's fallback otherwise; no navigation;
\* and the error does not leave onSubmit.
C2_RejectionIsToastedNotRethrown ==
    \A i \in DOMAIN calls :
        calls[i].phase = "done" /\ calls[i].outcome.kind = "rejected" =>
            LET es == EffectsOf(calls[i].submit)
                message == calls[i].outcome.error.message
            IN /\ Len(es) = 1
               /\ es[1].effect.kind = "toast"
               /\ es[1].effect.title = "Registration Failed"
               /\ es[1].effect.variant = "destructive"
               /\ es[1].effect.description =
                     IF message.t = "string" /\ message.s # ""
                     THEN message.s ELSE Fallback(FormOfCall(i))
               /\ calls[i].submit \notin rethrown

\* Both forms have had a call rejected: the guard's with a message, the
\* company's without one.
C2_Witness ==
    \E i, j \in DOMAIN calls :
        /\ calls[i].api = "registerGuard" /\ calls[i].phase = "done"
        /\ calls[i].outcome.kind = "rejected"
        /\ calls[i].outcome.error.message = Str("Email already registered")
        /\ calls[j].api = "apiFetch" /\ calls[j].phase = "done"
        /\ calls[j].outcome.kind = "rejected"
        /\ calls[j].outcome.error.message = Undefined

\* C6: a submit event whose field values fail the form's schema does not run
\* onSubmit and makes no external call.
C6_InvalidNeverReachesTheNetwork ==
    \A id \in DOMAIN submits :
        LET s == submits[id]
            result == IF s.form = "guard" THEN GuardFormSchema(s.raw)
                      ELSE CompanyFormSchema(s.raw)
        IN result.issues # <<>> => ~s.ran /\ CallsOf(id) = {}

\* Both forms have been submitted with invalid values: each shows its field
\* error and nothing was called.
C6_Witness ==
    /\ Len(submits) = 2
    /\ submits[1].form = "guard" /\ ~submits[1].ran
    /\ submits[2].form = "company" /\ ~submits[2].ran
    /\ "hourlyRate" \in DOMAIN guardErrors
    /\ "agreeTerms" \in DOMAIN companyErrors
    /\ calls = <<>>

\* What was typed into a field: something, rather than nothing or never touched.
Supplied(v) == v.t = "string" /\ Len(v.s) > 0

RatesAbsent(raw) ==
    /\ ~Supplied(raw.hourlyRate)
    /\ ~Supplied(raw.dailyRate)
    /\ ~Supplied(raw.monthlyRate)

\* C7: a guard form submitted with all three rates absent is rejected with the
\* "at least one rate" message on hourlyRate, whatever the other fields hold.
C7_NoRateIsAlwaysReported ==
    \A id \in DOMAIN submits :
        submits[id].form = "guard" /\ RatesAbsent(submits[id].raw) =>
            /\ ~submits[id].ran
            /\ "hourlyRate" \in DOMAIN guardErrors
            /\ guardErrors["hourlyRate"] = AtLeastOneRateMessage

PartsNamed(body, name) == {i \in DOMAIN body : body[i].name = name}

RequiredParts ==
    {"fullName", "email", "password", "phone", "role", "experience", "location"}

OptionalParts == {"hourlyRate", "dailyRate", "monthlyRate", "bio", "skills"}

\* C8: the multipart body handed to registerGuard has each required part and
\* the profilePicture part exactly once, no part outside the contract, and an
\* optional part only for a field the user supplied, never an empty one.
C8_MultipartBody ==
    \A i \in DOMAIN calls :
        calls[i].api = "registerGuard" =>
            LET body == calls[i].body
                raw == submits[calls[i].submit].raw
            IN /\ \A n \in RequiredParts \cup {"profilePicture"} :
                     Cardinality(PartsNamed(body, n)) = 1
               /\ \A j \in DOMAIN body :
                     body[j].name \in RequiredParts \cup OptionalParts \cup {"profilePicture"}
               /\ body[CHOOSE j \in DOMAIN body : body[j].name = "profilePicture"].value
                     = raw.profilePicture.files[1]
               /\ \A n \in OptionalParts :
                     /\ Cardinality(PartsNamed(body, n)) <= 1
                     /\ \A j \in PartsNamed(body, n) :
                           Supplied(raw[n]) /\ Len(body[j].value) > 0

\* A body with an hourlyRate part and no part for the rates, bio and skills
\* left empty.
C8_Witness ==
    \E i \in DOMAIN calls :
        /\ calls[i].api = "registerGuard"
        /\ submits[calls[i].submit].raw.bio = Str("")
        /\ submits[calls[i].submit].raw.dailyRate = Str(<<>>)
        /\ submits[calls[i].submit].raw.monthlyRate = Undefined
        /\ {calls[i].body[j].name : j \in DOMAIN calls[i].body} =
              RequiredParts \cup {"profilePicture", "hourlyRate", "skills"}
        /\ \E j \in DOMAIN calls[i].body :
              /\ calls[i].body[j].name = "hourlyRate"
              /\ calls[i].body[j].value = <<"2", "5">>

\* C9: the JSON body handed to apiFetch holds every field of the validated
\* record but agreeTerms, each with its value, and no agreeTerms key.
C9_JsonBody ==
    \A i \in DOMAIN calls :
        calls[i].api = "apiFetch" =>
            LET body == calls[i].body
                values == submits[calls[i].submit].values
            IN /\ {body[j].key : j \in DOMAIN body} = DOMAIN values \ {"agreeTerms"}
               /\ {"companyName", "email", "password", "location", "website",
                   "description"} \subseteq {body[j].key : j \in DOMAIN body}
               /\ \A j, k \in DOMAIN body : body[j].key = body[k].key => j = k
               /\ \A j \in DOMAIN body : body[j].value = values[body[j].key]
               /\ \A j \in DOMAIN body : body[j].key # "agreeTerms"

\* A company submitted with website and description left empty: both are in
\* the body as empty strings.
C9_Witness ==
    \E i \in DOMAIN calls :
        /\ calls[i].api = "apiFetch"
        /\ submits[calls[i].submit].values.agreeTerms = Bool(TRUE)
        /\ \E j \in DOMAIN calls[i].body :
              calls[i].body[j] = [key |-> "website", value |-> Str("")]
        /\ \E j \in DOMAIN calls[i].body :
              calls[i].body[j] = [key |-> "description", value |-> Str("")]

\* C10: a company submission whose call resolved raised the success toast and
\* then navigated to /login, and nothing else; navigation is only ever that of
\* a company submission whose call resolved; a guard submission whose call
\* resolved raised no toast and did not navigate.
C10_SuccessEffects ==
    /\ \A i \in DOMAIN calls :
          calls[i].phase = "done" /\ calls[i].outcome.kind = "resolved" =>
              LET es == EffectsOf(calls[i].submit)
              IN IF calls[i].api = "apiFetch"
                 THEN /\ Len(es) = 2
                      /\ es[1].effect.kind = "toast"
                      /\ es[1].effect.title = "Company Registration Submitted!"
                      /\ es[1].effect.variant # "destructive"
                      /\ es[2].effect = Push("/login")
                 ELSE es = <<>>
    /\ \A k \in DOMAIN effects :
          effects[k].effect.kind = "push" =>
              \E i \in DOMAIN calls :
                  /\ calls[i].submit = effects[k].submit
                  /\ calls[i].api = "apiFetch"
                  /\ calls[i].phase = "done"
                  /\ calls[i].outcome.kind = "resolved"

\* A guard call and a company call have both resolved: the only effects are
\* the company's toast and navigation.
C10_Witness ==
    /\ \E i \in DOMAIN calls :
          /\ calls[i].api = "registerGuard" /\ calls[i].phase = "done"
          /\ calls[i].outcome.kind = "resolved"
    /\ \E i \in DOMAIN calls :
          /\ calls[i].api = "apiFetch" /\ calls[i].phase = "done"
          /\ calls[i].outcome.kind = "resolved"
    /\ Len(effects) = 2
    /\ effects[2].effect = Push("/login")

RateFields == {"hourlyRate", "dailyRate", "monthlyRate"}

\* What was typed into a rate input reads as a number below zero.
BelowZero(v) ==
    Supplied(v) /\ ToNumber(v).t = "number" /\ ToNumber(v).n < 0

\* C11: a guard form with a rate below zero fails validation: onSubmit does
\* not run for it.
C11_NegativeRateIsRejected ==
    \A id \in DOMAIN submits :
        /\ submits[id].form = "guard"
        /\ \E f \in RateFields : BelowZero(submits[id].raw[f])
        => ~submits[id].ran

\* C12: a guard form whose role is a string outside the fixed set of roles
\* fails validation: onSubmit does not run for it.
C12_UnknownRoleIsRejected ==
    \A id \in DOMAIN submits :
        /\ submits[id].form = "guard"
        /\ submits[id].raw.role.t = "string"
        /\ submits[id].raw.role.s \notin roles
        => ~submits[id].ran

FileCount(p) == IF p.t = "files" THEN Len(p.files) ELSE 0

\* C13: the profilePicture field is free of error exactly when there is one
\* file of at most 5 MiB and of an accepted type; otherwise its error is that
\* of the first failing check in the order presence, size, type.
C13_ProfilePictureChecks ==
    \A id \in DOMAIN submits :
        submits[id].form = "guard" =>
            LET p == submits[id].raw.profilePicture
                one == FileCount(p) = 1
                small == FileCount(p) >= 1 /\ p.files[1].size <= 5 * 1024 * 1024
                image == /\ FileCount(p) >= 1
                         /\ p.files[1].type \in
                               {"image/jpeg", "image/jpg", "image/png", "image/webp"}
                passes == "profilePicture" \notin DOMAIN guardErrors
            IN /\ passes <=> (one /\ small /\ image)
               /\ ~passes =>
                     guardErrors["profilePicture"] =
                        IF ~one THEN "Profile picture is required."
                        ELSE IF ~small THEN "Max file size is 5MB."
                        ELSE "Only .jpg, .jpeg, .png and .webp formats are supported."

\* A gif of 5 MiB and one byte was submitted: both the size and the type check
\* fail, and the field shows the size message.
C13_Witness ==
    /\ Len(submits) = 1 /\ submits[1].form = "guard"
    /\ submits[1].raw.profilePicture = Files(<<GifFile(5 * 1024 * 1024 + 1)>>)
    /\ "profilePicture" \in DOMAIN guardErrors
    /\ guardErrors["profilePicture"] = "Max file size is 5MB."

\* A png of exactly 5 MiB was submitted and went out with the call.
C13_WitnessAtLimit ==
    /\ Len(submits) = 1 /\ submits[1].form = "guard" /\ submits[1].ran
    /\ submits[1].raw.profilePicture = Files(<<PngFile(5 * 1024 * 1024)>>)
    /\ "profilePicture" \notin DOMAIN guardErrors
    /\ Len(calls) = 1

\* C15: a multipart body handed to registerGuard holds at least one rate
\* part, and every rate of the validated record, a rate of 0 included, is a
\* part holding the rate's text.
C15_EveryRateIsTransmitted ==
    \A i \in DOMAIN calls :
        calls[i].api = "registerGuard" =>
            LET body == calls[i].body
                values == submits[calls[i].submit].values
            IN /\ \E f \in RateFields : PartsNamed(body, f) # {}
               /\ \A f \in RateFields :
                     values[f].t = "number" =>
                        \E j \in PartsNamed(body, f) :
                            body[j].value = NumberToString(values[f].n)

----------------------------------------------------------------------------
(* Properties of the Guards context *)

AllDone == requests # <<>> /\ \A i \in DOMAIN requests : requests[i].phase = "done"

\* What a settled request leaves in the list: its array, or the empty list
\* when the payload is absent or the request failed.
ListOf(outcome) ==
    IF outcome.kind = "resolved" /\ ~outcome.data.absent
    THEN outcome.data.list ELSE <<>>

\* C3: every fetchGuards invocation issues its own request and none is
\* dropped, also while others are in flight; once all have completed, the list
\* is what the request that settled last left, and loading is false.
C3_LastWriteWins ==
    /\ Len(requests) = invocations
    /\ \A i \in DOMAIN requests : requests[i].phase \in {"pending", "settled", "done"}
    /\ AllDone =>
          /\ guards = ListOf(requests[settleOrder[Len(settleOrder)]].outcome)
          /\ ~isLoading

\* Two overlapping fetches, the one issued first settling last, with a
\* different list than the other: the list is the first one's.
C3_Witness ==
    /\ AllDone
    /\ settleOrder = <<2, 1>>
    /\ requests[1].outcome.kind = "resolved"
    /\ requests[2].outcome.kind = "resolved"
    /\ ListOf(requests[1].outcome) = <<"g1">>
    /\ ListOf(requests[2].outcome) = <<"g2", "g1">>
    /\ guards = <<"g1">>

\* C4: before the mount effect the cache is loading with an empty list; the
\* mount effect issues a fetch and leaves loading true; when a fetch resolves,
\* loading becomes false and the list becomes the payload, the empty list for
\* an absent one; the list only ever changes to a whole payload or to empty.
C4_LoadingThenReady ==
    /\ (isLoading = TRUE /\ guards = <<>> /\ requests = <<>>)
    /\ [][ /\ (~mounted /\ mounted') =>
                 /\ isLoading' /\ guards' = <<>>
                 /\ Len(requests') = 1 /\ requests'[1].phase = "pending"
           /\ \A i \in DOMAIN requests :
                 /\ requests[i].phase = "settled" /\ requests'[i].phase = "done"
                 /\ requests[i].outcome.kind = "resolved"
                 => /\ ~isLoading'
                    /\ guards' = IF requests[i].outcome.data.absent THEN <<>>
                                 ELSE requests[i].outcome.data.list
           /\ guards' # guards =>
                 \E i \in DOMAIN requests : guards' = ListOf(requests[i].outcome) ]_vars

\* The mount fetch alone has resolved, once with a list of two guards.
C4_Witness ==
    /\ Len(requests) = 1 /\ requests[1].phase = "done"
    /\ requests[1].outcome.kind = "resolved"
    /\ guards = <<"g2", "g1">>
    /\ ~isLoading

\* The mount fetch resolved with an absent payload while the list held guards
\* from a refetch that had settled before it.
C4_WitnessAbsent ==
    /\ AllDone /\ settleOrder = <<2, 1>>
    /\ requests[1].outcome.kind = "resolved" /\ requests[1].outcome.data.absent
    /\ ListOf(requests[2].outcome) # <<>>
    /\ guards = <<>>

\* C5: when a fetch fails, the list becomes empty and loading false, the error
\* is logged once, nothing reaches the consumer, and no request is issued: a
\* request is only ever issued by an invocation of fetchGuards.
C5_FailureEmptiesAndIsLogged ==
    [][ /\ \A i \in DOMAIN requests :
              /\ requests[i].phase = "settled" /\ requests'[i].phase = "done"
              /\ requests[i].outcome.kind = "rejected"
              => /\ guards' = <<>>
                 /\ ~isLoading'
                 /\ errorLog' = Append(errorLog, i)
                 /\ Len(requests') = Len(requests)
                 /\ invocations' = invocations
        /\ ~escaped'
        /\ Len(requests') # Len(requests) =>
              /\ Len(requests') = Len(requests) + 1
              /\ invocations' = invocations + 1 ]_vars

\* A refetch failed after the mount fetch had filled the list: the list is
\* empty again, the failure is logged, nothing is in flight.
C5_Witness ==
    /\ AllDone /\ settleOrder = <<1, 2>>
    /\ ListOf(requests[1].outcome) # <<>>
    /\ requests[2].outcome.kind = "rejected"
    /\ guards = <<>> /\ ~isLoading
    /\ errorLog = <<2>>
    /\ ~escaped

InFlight == {i \in DOMAIN requests : requests[i].phase # "done"}

\* C14: across the mount fetch and any refetches, loading is true whenever a
\* fetch is still in flight.
C14_LoadingWhileInFlight == InFlight # {} => isLoading

====
